---- MODULE Spec2Model ----
(***************************************************************************)
(* A model of video-asr-summary: the silence-aware audio segmenter         *)
(* (audio.py, split_audio_on_silence) and the video-to-summary pipeline    *)
(* (pipeline.py, process_video and _apply_image_context_corrections).      *)
(*                                                                         *)
(* Several specifications share the module: SplitSpec runs the segmenter   *)
(* on every audio of the bounded input space; PipelineSpec runs one        *)
(* process_video call against every behaviour of its backends; the others  *)
(* are introduced with the part of the program they run.                   *)
(***************************************************************************)
EXTENDS Integers, Sequences, FiniteSets, TLC

(***************************************************************************)
(* Bounds of the model.  Times are milliseconds; the inputs lie on a grid  *)
(* of Tick ms.                                                             *)
(***************************************************************************)
Tick == 250
MaxCells == 8
MaxDurTicks == 6
MaxSilences == 2
MaxSweeps == 10
MaxProgressCells == 6

(***************************************************************************)
(* Program constants: the defaults of split_audio_on_silence.              *)
(***************************************************************************)
DefaultMinSilenceLenMs == 600
DefaultMinExportDurationMs == 300
DefaultSilentRmsThreshold == 20

None == -1

Min(a, b) == IF a <= b THEN a ELSE b
Max(a, b) == IF a >= b THEN a ELSE b

VARIABLES
    \* ---- split_audio_on_silence: arguments and the decoded audio
    max_duration,        \* the max_duration argument, in ms (seconds * 1000)
    min_silence_len_ms,
    keep_silence_ms,
    output_dir_given,    \* output_dir is not None
    total_ms,            \* len(audio)
    detected,            \* what detect_silence returns for this audio
    \* ---- split_audio_on_silence: locals
    spc,                 \* "call", "sweep", "returned", "raised"
    silence_ranges,
    segment_start,
    segment_index,
    silence_idx,         \* 1-based: the next silence interval to look at
    segments,            \* the list of paths returned
    sweep,               \* one record per iteration of the while loop
    chunk_rms,           \* chunk.rms of the chunk export_chunk looked at last
    \* ---- split_audio_on_silence: effects on the outside
    audio_read,
    detect_ran,
    dir_created,
    exported,            \* the chunk files written, in order
    \* ---- process_video: arguments
    asr_backend,
    enable_image_context,
    \* ---- process_video: locals and position
    ppc,                 \* "start", "split", "transcribe", "frames", "describe",
                         \* "correct", "summarize", "returned", "raised"
    backend,
    chunk_count,         \* len(chunk_paths)
    transcripts,
    transcript,
    corrected_transcript,
    frame_count,         \* len(frames)
    descriptions,        \* what describe_image returned, per frame
    image_context,
    summarizer_input,    \* the text handed to summarize, if it was called
    result,              \* the dict returned, if any
    error,               \* the call that raised out of process_video, if any
    \* ---- process_video: effects on the outside
    calls,               \* the collaborator calls made, in order
    chunk_tmpdir,        \* "none", "live", "released"
    frames_dir,          \* "unset", "caller" (frame_output_dir), "temp"
    frame_tmpdir,        \* "none", "live", "released"
    audio_file,          \* "none", "present", "unlinked"
    \* ---- scripts/process_video.py, main: arguments
    publish_to_lark,
    summary_only,
    \* ---- main: position and effects on the outside
    cpc,                 \* "start", "pipeline", "publish", "print", "exited", "aborted"
    stdout,              \* what main has printed, in order
    cli_error,           \* the exception main ended with, if any
    download_tmpdir,     \* "none", "live", "released"
    \* ---- TranscriptCorrector._extract_corrected_transcript
    content,             \* the argument: the text of the model's response
    epc,                 \* "call", "returned", "raised"
    extract_result,      \* the string returned
    yielded,             \* which candidate gave it, 0 when it is the fallback text
    \* ---- lark_docs.py, create_summary_document: arguments and environment
    provided_token,      \* the tenant token of the arguments or the environment, "" if none
    user_token_given,    \* a user access token is given
    receiver_given,      \* a message receiver id is given
    now,                 \* time.time() when the token is resolved
    cache_before,        \* the token cache file as the call finds it
    \* ---- create_summary_document: locals, position and effects
    lpc,                 \* "call", "resolved", "created", "returned", "raised"
    cache,               \* the token cache file
    tenant_token,        \* the tenant token resolved, "" before
    token_requests,      \* the moments at which a tenant token was requested
    cache_writes,        \* the writes of the cache file: "ok" or "OSError"
    doc_calls,           \* the document calls: <<kind, credential, outcome>>
    messages,            \* the personal messages: <<text, outcome>>
    lark_result,
    lark_error

splitVars == <<max_duration, min_silence_len_ms, keep_silence_ms, output_dir_given,
               total_ms, detected, spc, silence_ranges, segment_start, segment_index,
               silence_idx, segments, sweep, chunk_rms, audio_read, detect_ran,
               dir_created, exported>>

pipeVars == <<asr_backend, enable_image_context, ppc, backend, chunk_count, transcripts,
              transcript, corrected_transcript, frame_count, descriptions, image_context,
              summarizer_input, result, error, calls, chunk_tmpdir, frames_dir,
              frame_tmpdir, audio_file>>

cliVars == <<publish_to_lark, summary_only, cpc, stdout, cli_error, download_tmpdir>>

extractVars == <<content, epc, extract_result, yielded>>

larkVars == <<provided_token, user_token_given, receiver_given, now, cache_before, lpc,
              cache, tenant_token, token_requests, cache_writes, doc_calls, messages,
              lark_result, lark_error>>

vars == <<splitVars, pipeVars, cliVars, extractVars, larkVars>>

\* what an action of one component leaves alone in the others
outsideSplit == <<pipeVars, cliVars, extractVars, larkVars>>
outsidePipeline == <<splitVars, cliVars, extractVars, larkVars>>
outsideCli == <<splitVars, extractVars, larkVars>>
outsideExtract == <<splitVars, pipeVars, cliVars, larkVars>>
outsideLark == <<splitVars, pipeVars, cliVars, extractVars>>

(***************************************************************************)
(* The inputs of the segmenter.                                            *)
(***************************************************************************)
GridPoints(total) == {k * Tick : k \in 0..(total \div Tick)}

\* detect_silence yields [start, end] pairs at least min_silence_len long
SilenceIntervals(total, msl) ==
    {p \in GridPoints(total) \X GridPoints(total) : p[2] - p[1] >= msl}

\* ... sorted by start, separated by sound
SilenceLists(total, msl) ==
    UNION {{r \in [1..n -> SilenceIntervals(total, msl)] :
                \A i \in 1..(n - 1) : r[i][2] < r[i + 1][1]} : n \in 0..MaxSilences}

MinSilenceLenChoices == {Tick, DefaultMinSilenceLenMs}
KeepSilenceChoices == {-3 * Tick, 0, Tick}
MaxDurationChoices == {-Tick} \cup {k * Tick : k \in 0..MaxDurTicks}
RmsChoices == {DefaultSilentRmsThreshold, DefaultSilentRmsThreshold + 1}

\* chunk.rms: an empty chunk has rms 0
RmsOf(duration_ms) == IF duration_ms = 0 THEN {0} ELSE RmsChoices

SourcePath == <<"source", 0>>
ChunkPath(index) == <<"part", index>>

(***************************************************************************)
(* split_audio_on_silence, line by line.                                   *)
(***************************************************************************)
MaxDurationMs(d) == Max(d, 0)

ToleranceMs(msl, max_ms) == Max(msl, max_ms \div 5)

MinChunkMs(max_ms) == Min(max_ms, Max(500, max_ms \div 4))

\* TargetEnd without the cap at the end of the audio
TargetEndUncapped(start, max_ms, total) == start + max_ms

\* line 185: where the segment has to end at the latest
TargetEnd(start, max_ms, total) == Min(start + max_ms, total)

\* Midpoint with the cut put where the silence begins
SilenceOnset(silence_start, silence_end) == silence_start

\* lines 199 and 204: the middle of the silence
Midpoint(silence_start, silence_end) == (silence_start + silence_end) \div 2

\* the for loop over silence_ranges[silence_idx:], st = the loop's three variables
RECURSIVE ScanSilences(_, _, _, _, _, _, _)
ScanSilences(idx, st, ranges, start, target_end, min_chunk_ms, tolerance_ms) ==
    IF idx > Len(ranges) THEN st
    ELSE LET silence_start == ranges[idx][1]
             silence_end == ranges[idx][2]
             hit == [st EXCEPT !.best_idx = idx,
                               !.best_split = Midpoint(silence_start, silence_end)]
         IN  IF silence_end <= start
             THEN ScanSilences(idx + 1, [st EXCEPT !.silence_idx = idx + 1], ranges,
                               start, target_end, min_chunk_ms, tolerance_ms)
             ELSE IF silence_start < start + min_chunk_ms
             THEN ScanSilences(idx + 1, st, ranges, start, target_end, min_chunk_ms,
                               tolerance_ms)
             ELSE IF silence_start <= target_end
             THEN ScanSilences(idx + 1, hit, ranges, start, target_end, min_chunk_ms,
                               tolerance_ms)
             ELSE IF silence_start <= target_end + tolerance_ms /\ st.best_split = None
             THEN hit
             ELSE st

\* lines 207-211: the silence midpoint, or the hard cut
CutPoint(st, start, target_end, min_chunk_ms) ==
    IF st.best_idx # None /\ st.best_split # None
    THEN Max(start + min_chunk_ms, st.best_split)
    ELSE target_end

\* lines 213-214: the forced minimum segment
ForceProgress(segment_end, start, total, max_ms) ==
    IF segment_end <= start
    THEN Min(total, start + Max(100, max_ms \div 4))
    ELSE segment_end

\* KeepSilence without the cap at the end of the audio
KeepSilenceUncapped(segment_end, total, keep) ==
    IF keep # 0 /\ segment_end < total
    THEN segment_end + keep
    ELSE segment_end

\* lines 216-217: the keep-silence extension
KeepSilence(segment_end, total, keep) ==
    IF keep # 0 /\ segment_end < total
    THEN Min(total, segment_end + keep)
    ELSE segment_end

\* line 166, len(audio[start_ms:end_ms]): a position past the end is the end, a
\* negative one is counted back from the end, a slice that ends before it starts is
\* empty
SlicePosition(ms, total) == IF ms < 0 THEN Max(0, total + ms) ELSE Min(ms, total)

SliceLen(start_ms, end_ms, total) ==
    Max(0, SlicePosition(end_ms, total) - SlicePosition(start_ms, total))

\* ChunkDropped that drops every short chunk, loud or not
ChunkDroppedAnyRms(duration_ms, rms, msl) ==
    \/ duration_ms < Max(DefaultMinExportDurationMs, 1)
    \/ duration_ms < msl

\* export_chunk returns None (the chunk is dropped) or writes the chunk file
ChunkDropped(duration_ms, rms, msl) ==
    \/ duration_ms < Max(DefaultMinExportDurationMs, 1) /\ rms <= DefaultSilentRmsThreshold
    \/ rms <= DefaultSilentRmsThreshold /\ duration_ms < msl

\* ShortCircuit with the comparison made strict
ShortCircuitStrict(total, max_ms) == total < max_ms

\* line 144: the audio already fits in one chunk
ShortCircuit(total, max_ms) == total <= max_ms

SplitStart ==
    /\ spc = "call"
    /\ silence_ranges = <<>>
    /\ segment_start = 0
    /\ segment_index = 1
    /\ silence_idx = 1
    /\ segments = <<>>
    /\ sweep = <<>>
    /\ chunk_rms = None
    /\ audio_read = FALSE
    /\ detect_ran = FALSE
    /\ dir_created = FALSE
    /\ exported = <<>>

\* lines 136-182: decode, validate, short-circuit, detect silence, set up the sweep
SplitEnter ==
    /\ spc = "call"
    /\ audio_read' = TRUE
    /\ IF MaxDurationMs(max_duration) <= 0
       THEN /\ spc' = "raised"
            /\ UNCHANGED <<segments, silence_ranges, detect_ran, dir_created>>
       ELSE IF ShortCircuit(total_ms, MaxDurationMs(max_duration))
       THEN /\ spc' = "returned"
            /\ segments' = <<SourcePath>>
            /\ UNCHANGED <<silence_ranges, detect_ran, dir_created>>
       ELSE /\ spc' = "sweep"
            /\ silence_ranges' = detected
            /\ detect_ran' = TRUE
            /\ dir_created' = output_dir_given
            /\ UNCHANGED segments
    /\ UNCHANGED <<max_duration, min_silence_len_ms, keep_silence_ms, output_dir_given,
                   total_ms, detected, segment_start, segment_index, silence_idx,
                   sweep, chunk_rms, exported>>
    /\ UNCHANGED outsideSplit

\* lines 184-224: one iteration of the while loop
SweepStep ==
    /\ spc = "sweep"
    /\ segment_start < total_ms
    /\ Len(sweep) < MaxSweeps
    /\ LET max_duration_ms == MaxDurationMs(max_duration)
           min_chunk_ms == MinChunkMs(max_duration_ms)
           tolerance_ms == ToleranceMs(min_silence_len_ms, max_duration_ms)
           target_end == TargetEnd(segment_start, max_duration_ms, total_ms)
           st == ScanSilences(silence_idx,
                              [silence_idx |-> silence_idx, best_idx |-> None,
                               best_split |-> None],
                              silence_ranges, segment_start, target_end, min_chunk_ms,
                              tolerance_ms)
           found == st.best_idx # None /\ st.best_split # None
           cut == CutPoint(st, segment_start, target_end, min_chunk_ms)
           forced == ForceProgress(cut, segment_start, total_ms, max_duration_ms)
           segment_end == KeepSilence(forced, total_ms, keep_silence_ms)
           duration_ms == SliceLen(segment_start, segment_end, total_ms)
       IN  \E rms \in RmsOf(duration_ms) :
             LET dropped == ChunkDropped(duration_ms, rms, min_silence_len_ms)
             IN  /\ silence_idx' = IF found THEN st.best_idx + 1 ELSE st.silence_idx
                 /\ sweep' = Append(sweep,
                        [segment_start |-> segment_start, segment_end |-> segment_end,
                         target_end |-> target_end, best_idx |-> st.best_idx,
                         cut |-> cut, forced |-> (cut <= segment_start),
                         before_keep |-> forced,
                         silence_idx |-> IF found THEN st.best_idx + 1
                                         ELSE st.silence_idx,
                         duration_ms |-> duration_ms,
                         index |-> IF dropped THEN 0 ELSE segment_index])
                 /\ IF dropped
                    THEN UNCHANGED <<segments, segment_index, exported>>
                    ELSE /\ segments' = Append(segments, ChunkPath(segment_index))
                         /\ exported' = Append(exported, ChunkPath(segment_index))
                         /\ segment_index' = segment_index + 1
                 /\ chunk_rms' = rms
                 /\ segment_start' = segment_end
    /\ UNCHANGED <<max_duration, min_silence_len_ms, keep_silence_ms, output_dir_given,
                   total_ms, detected, spc, silence_ranges, audio_read, detect_ran,
                   dir_created>>
    /\ UNCHANGED outsideSplit

\* line 226: the loop is over, the list is returned
SweepReturn ==
    /\ spc = "sweep"
    /\ segment_start >= total_ms
    /\ spc' = "returned"
    /\ UNCHANGED <<max_duration, min_silence_len_ms, keep_silence_ms, output_dir_given,
                   total_ms, detected, silence_ranges, segment_start, segment_index,
                   silence_idx, segments, sweep, chunk_rms, audio_read, detect_ran,
                   dir_created, exported>>
    /\ UNCHANGED outsideSplit

(***************************************************************************)
(* Text.  A string is a sequence of characters.                            *)
(***************************************************************************)
Null == <<>>
Some(x) == <<x>>

Whitespace == {" ", "\n", "\r", "\t"}

\* str.strip()
RECURSIVE LStrip(_)
LStrip(s) == IF Len(s) > 0 /\ s[1] \in Whitespace THEN LStrip(Tail(s)) ELSE s

RECURSIVE RStrip(_)
RStrip(s) ==
    IF Len(s) > 0 /\ s[Len(s)] \in Whitespace THEN RStrip(SubSeq(s, 1, Len(s) - 1)) ELSE s

Strip(s) == RStrip(LStrip(s))

\* sep.join(parts)
RECURSIVE StrJoin(_, _)
StrJoin(sep, parts) ==
    IF Len(parts) = 0 THEN <<>>
    ELSE IF Len(parts) = 1 THEN parts[1]
    ELSE parts[1] \o sep \o StrJoin(sep, Tail(parts))

\* JoinTranscripts without the filter on blank parts
JoinTranscriptsUnfiltered(parts) ==
    StrJoin(<<"\n", "\n">>, [i \in 1..Len(parts) |-> Strip(parts[i])])

\* line 73: "\n\n".join(part.strip() for part in transcripts if part.strip())
JoinTranscripts(parts) ==
    StrJoin(<<"\n", "\n">>,
            SelectSeq([i \in 1..Len(parts) |-> Strip(parts[i])], LAMBDA t : Len(t) > 0))

\* asr_backend.lower(), on the backend names the model passes
Lower(name) == CASE name = "Bailian" -> "bailian"
                 [] name = "LOCAL" -> "local"
                 [] OTHER -> name

\* CorrectionGate without the test of the backend
CorrectionGateAnyBackend(enable, be, text) == enable /\ Len(Strip(text)) > 0

\* line 83: the condition under which the visual-correction stage is entered
CorrectionGate(enable, be, text) == enable /\ be = "local" /\ Len(Strip(text)) > 0

\* Path.write_text followed by Path.read_text: universal newlines on the way back
RECURSIVE ReadBack(_)
ReadBack(s) ==
    IF Len(s) = 0 THEN <<>>
    ELSE IF s[1] = "\r" /\ Len(s) > 1 /\ s[2] = "\n" THEN <<"\n">> \o ReadBack(Tail(Tail(s)))
    ELSE IF s[1] = "\r" THEN <<"\n">> \o ReadBack(Tail(s))
    ELSE <<s[1]>> \o ReadBack(Tail(s))

\* ImageContext without the strip of what is read back
ImageContextUnstripped(descs, unreadable) ==
    LET saved == [i \in 1..Len(descs) |->
                    IF i \in unreadable THEN <<>> ELSE ReadBack(descs[i])]
    IN  SelectSeq(saved, LAMBDA t : Len(t) > 0)

\* lines 174-181: the saved descriptions that can be read and are not blank
ImageContext(descs, unreadable) ==
    LET saved == [i \in 1..Len(descs) |->
                    IF i \in unreadable THEN <<>> ELSE Strip(ReadBack(descs[i]))]
    IN  SelectSeq(saved, LAMBDA t : Len(t) > 0)

\* ErrorText without the fallback to the class name
ErrorTextMessageOnly(message, class_name) == message

\* line 111: str(exc) or exc.__class__.__name__
ErrorText(message, class_name) == IF message = "" THEN class_name ELSE message

(***************************************************************************)
(* The inputs and the backends' answers of process_video.                  *)
(***************************************************************************)
MaxChunks == 3
MaxFrames == 2

BackendChoices == {"bailian", "Bailian", "local", "whisper"}
TextChoices == {<<>>, <<" ">>, <<"a">>, <<"\n", "b", " ">>}
DescriptionChoices == {<<"\r", "\n">>, <<"d", "\r", "g">>, <<" ", "e", "\r">>}
CorrectionChoices == {<<" ", "c", "\n">>}
SummaryChoices == {<<>>, <<"#">>}
MessageChoices == {"", "network unavailable"}

PipeStart ==
    /\ ppc = "start"
    /\ backend = ""
    /\ chunk_count = 0
    /\ transcripts = <<>>
    /\ transcript = <<>>
    /\ corrected_transcript = <<>>
    /\ frame_count = 0
    /\ descriptions = <<>>
    /\ image_context = <<>>
    /\ summarizer_input = Null
    /\ result = Null
    /\ error = ""
    /\ calls = <<>>
    /\ chunk_tmpdir = "none"
    /\ frames_dir = "unset"
    /\ frame_tmpdir = "none"
    /\ audio_file = "none"

Call(name, arg, outcome) == <<name, arg, outcome>>

\* a call of that name with that outcome was made
Called(name, outcome) == \E k \in 1..Len(calls) : calls[k][1] = name /\ calls[k][3] = outcome

Raise(what) ==
    /\ ppc' = "raised"
    /\ error' = what

\* Released with the cleanup forgotten
Leaked(dir) == dir

\* TemporaryDirectory.__exit__ (line 71) and the finally block (lines 197-199): a
\* temporary directory that was created is deleted, anything else is left alone
Released(dir) == IF dir = "live" THEN "released" ELSE dir

\* lines 140-146: a TemporaryDirectory is created only when no frame_output_dir is given
FrameTempdir(frame_output_dir_given) == IF frame_output_dir_given THEN "none" ELSE "live"

\* lines 39-61: extract the audio track, pick the ASR client
PV_Start ==
    /\ ppc = "start"
    /\ \E extracted \in BOOLEAN, constructed \in BOOLEAN :
         IF ~extracted
         THEN /\ Raise("extract_audio")
              /\ calls' = Append(calls, Call("extract_audio", 0, "raised"))
              /\ UNCHANGED <<backend, audio_file>>
         ELSE /\ calls' = Append(calls, Call("extract_audio", 0, "ok"))
              /\ audio_file' = "present"
              /\ backend' = Lower(asr_backend)
              /\ IF backend' \notin {"bailian", "local"}
                 THEN Raise("unsupported_backend")
                 ELSE IF ~constructed
                 THEN Raise("asr_client")
                 ELSE /\ ppc' = "split"
                      /\ UNCHANGED error
    /\ UNCHANGED <<asr_backend, enable_image_context, frames_dir,
                   chunk_count, transcripts, transcript, corrected_transcript,
                   frame_count, descriptions, image_context, summarizer_input, result,
                   chunk_tmpdir, frame_tmpdir>>
    /\ UNCHANGED outsidePipeline

\* lines 64-69: the chunk directory is created, the audio is split into it
PV_Split ==
    /\ ppc = "split"
    /\ \E split \in BOOLEAN, n \in 0..MaxChunks :
         IF ~split
         THEN /\ Raise("split_audio_on_silence")
              /\ calls' = Append(calls, Call("split_audio_on_silence", 0, "raised"))
              /\ chunk_tmpdir' = Released("live")
              /\ UNCHANGED chunk_count
         ELSE /\ ppc' = "transcribe"
              /\ calls' = Append(calls, Call("split_audio_on_silence", 0, "ok"))
              /\ chunk_tmpdir' = "live"
              /\ chunk_count' = n
              /\ UNCHANGED error
    /\ UNCHANGED <<asr_backend, enable_image_context, frames_dir,
                   backend, transcripts, transcript, corrected_transcript, frame_count,
                   descriptions, image_context, summarizer_input, result, frame_tmpdir,
                   audio_file>>
    /\ UNCHANGED outsidePipeline

\* TranscribeRaises with the failure swallowed: the chunk counts as blank
TranscribeSkipsChunk ==
    /\ transcripts' = Append(transcripts, <<>>)
    /\ UNCHANGED <<ppc, error, chunk_tmpdir>>

\* lines 64-71, transcribe raises: nothing catches it, the with block lets go of the
\* chunk directory and process_video is left
TranscribeRaises ==
    /\ Raise("transcribe")
    /\ chunk_tmpdir' = Released(chunk_tmpdir)
    /\ UNCHANGED transcripts

\* lines 70-71: one iteration of the loop over chunk_paths
PV_Transcribe ==
    /\ ppc = "transcribe"
    /\ Len(transcripts) < chunk_count
    /\ \E answered \in BOOLEAN, text \in TextChoices :
         IF ~answered
         THEN /\ calls' = Append(calls, Call("transcribe", Len(transcripts) + 1, "raised"))
              /\ TranscribeRaises
         ELSE /\ calls' = Append(calls, Call("transcribe", Len(transcripts) + 1, "ok"))
              /\ transcripts' = Append(transcripts, text)
              /\ UNCHANGED <<ppc, error, chunk_tmpdir>>
    /\ UNCHANGED <<asr_backend, enable_image_context, frames_dir,
                   backend, chunk_count, transcript, corrected_transcript, frame_count,
                   descriptions, image_context, summarizer_input, result, frame_tmpdir,
                   audio_file>>
    /\ UNCHANGED outsidePipeline

\* lines 71-83: the loop is over; the chunk directory goes, the transcript is joined,
\* and the correction stage is entered or skipped
PV_Join ==
    /\ ppc = "transcribe"
    /\ Len(transcripts) = chunk_count
    /\ chunk_tmpdir' = Released(chunk_tmpdir)
    /\ transcript' = JoinTranscripts(transcripts)
    /\ corrected_transcript' = transcript'
    /\ ppc' = IF CorrectionGate(enable_image_context, backend, transcript')
              THEN "frames" ELSE "summarize"
    /\ UNCHANGED <<asr_backend, enable_image_context, frames_dir,
                   backend, chunk_count, transcripts, frame_count, descriptions,
                   image_context, summarizer_input, result, error, calls, frame_tmpdir,
                   audio_file>>
    /\ UNCHANGED outsidePipeline

\* StageRaises with the failure caught the way the summarizer's is: the transcript
\* goes on uncorrected
StageFallsBack(what) ==
    /\ ppc' = "summarize"
    /\ UNCHANGED <<error, corrected_transcript>>

\* lines 84-96 and 148-199, a call of the stage raises: nothing catches it, neither in
\* _apply_image_context_corrections (try/finally only) nor in process_video
StageRaises(what) ==
    /\ Raise(what)
    /\ UNCHANGED corrected_transcript

FrameIntervalChoices == {-1, 0, 5}

\* FrameEffects with the interval checked after the work, not before
FrameEffectsUnchecked(interval_seconds, tool_ok) ==
    <<Call("frames_mkdir", 0, "ok"),
      Call("ffmpeg_frames", 0, IF tool_ok THEN "ok" ELSE "raised")>>

\* extract_video_frames, audio.py lines 87-110: what the function does to the outside,
\* in order: nothing when the interval is rejected, else mkdir and the ffmpeg run
FrameEffects(interval_seconds, tool_ok) ==
    IF interval_seconds <= 0
    THEN <<>>
    ELSE <<Call("frames_mkdir", 0, "ok"),
           Call("ffmpeg_frames", 0, IF tool_ok THEN "ok" ELSE "raised")>>

\* extract_video_frames, how it ends: ValueError (lines 87-88), RuntimeError (lines
\* 109-110) or the list of frames
FrameOutcome(interval_seconds, tool_ok) ==
    IF interval_seconds <= 0 THEN "ValueError"
    ELSE IF ~tool_ok THEN "raised"
    ELSE "ok"

\* _apply_image_context_corrections, lines 140-165: the frame directory, the frames,
\* the vision client
AIC_Extract ==
    /\ ppc = "frames"
    /\ \E frame_output_dir_given \in BOOLEAN, interval_seconds \in FrameIntervalChoices,
          extracted \in BOOLEAN, n \in 0..MaxFrames, constructed \in BOOLEAN :
         /\ frames_dir' = IF frame_output_dir_given THEN "caller" ELSE "temp"
         /\ calls' = calls \o FrameEffects(interval_seconds, extracted)
                           \o <<Call("extract_video_frames", interval_seconds,
                                     FrameOutcome(interval_seconds, extracted))>>
         /\ IF FrameOutcome(interval_seconds, extracted) # "ok"
            THEN /\ StageRaises("extract_video_frames")
                 /\ frame_tmpdir' = Released(FrameTempdir(frame_output_dir_given))
                 /\ UNCHANGED frame_count
            ELSE /\ frame_count' = n
                 /\ IF n = 0
                    THEN /\ corrected_transcript' = transcript
                         /\ ppc' = "summarize"
                         /\ frame_tmpdir' =
                                Released(FrameTempdir(frame_output_dir_given))
                         /\ UNCHANGED error
                    ELSE IF ~constructed
                    THEN /\ StageRaises("vision_client")
                         /\ frame_tmpdir' =
                                Released(FrameTempdir(frame_output_dir_given))
                    ELSE /\ ppc' = "describe"
                         /\ frame_tmpdir' = FrameTempdir(frame_output_dir_given)
                         /\ UNCHANGED <<error, corrected_transcript>>
    /\ UNCHANGED <<asr_backend, enable_image_context, backend, chunk_count, transcripts,
                   transcript, descriptions, image_context, summarizer_input, result,
                   chunk_tmpdir, audio_file>>
    /\ UNCHANGED outsidePipeline

\* lines 168-172: one iteration of the loop over frames
AIC_Describe ==
    /\ ppc = "describe"
    /\ Len(descriptions) < frame_count
    /\ \E answered \in BOOLEAN, text \in DescriptionChoices :
         IF ~answered
         THEN /\ calls' = Append(calls,
                                 Call("describe_image", Len(descriptions) + 1, "raised"))
              /\ StageRaises("describe_image")
              /\ frame_tmpdir' = Released(frame_tmpdir)
              /\ UNCHANGED descriptions
         ELSE /\ calls' = Append(calls, Call("describe_image", Len(descriptions) + 1, "ok"))
              /\ descriptions' = Append(descriptions, text)
              /\ UNCHANGED <<ppc, error, frame_tmpdir, corrected_transcript>>
    /\ UNCHANGED <<asr_backend, enable_image_context, frames_dir,
                   backend, chunk_count, transcripts, transcript,
                   frame_count, image_context, summarizer_input, result, chunk_tmpdir,
                   audio_file>>
    /\ UNCHANGED outsidePipeline

\* line 193: corrector.correct(transcript, image_context=image_context, ...)
CorrectorInput(joined, context) ==
    [transcript |-> joined, image_context |-> context]

\* lines 174-199: gather the saved descriptions, call the corrector, drop the frame
\* directory
AIC_Correct ==
    /\ ppc = "describe"
    /\ Len(descriptions) = frame_count
    /\ frame_tmpdir' = Released(frame_tmpdir)
    /\ \E unreadable \in SUBSET (1..frame_count), constructed \in BOOLEAN,
          answered \in BOOLEAN, text \in CorrectionChoices :
         /\ image_context' = ImageContext(descriptions, unreadable)
         /\ IF Len(image_context') = 0
            THEN /\ corrected_transcript' = transcript
                 /\ ppc' = "summarize"
                 /\ UNCHANGED <<error, calls>>
            ELSE IF ~constructed
            THEN /\ StageRaises("transcript_corrector")
                 /\ UNCHANGED calls
            ELSE IF ~answered
            THEN /\ calls' = Append(calls,
                        Call("correct",
                             [input |-> CorrectorInput(transcript, image_context'),
                              returned |-> Null],
                             "raised"))
                 /\ StageRaises("correct")
            ELSE /\ calls' = Append(calls,
                        Call("correct",
                             [input |-> CorrectorInput(transcript, image_context'),
                              returned |-> Some(text)],
                             "ok"))
                 /\ corrected_transcript' = text
                 /\ ppc' = "summarize"
                 /\ UNCHANGED error
    /\ UNCHANGED <<asr_backend, enable_image_context, frames_dir,
                   backend, chunk_count, transcripts, transcript, frame_count,
                   descriptions, summarizer_input, result, chunk_tmpdir, audio_file>>
    /\ UNCHANGED outsidePipeline

\* PipelineResult with an empty summary, not None, when the summarizer failed
PipelineResultEmptySummary(text, answered, summary, message) ==
    [transcript |-> text,
     summary |-> IF answered THEN Some(summary) ELSE Some(<<>>),
     summarizer_error |->
        IF answered THEN Null ELSE Some(ErrorText(message, "RuntimeError"))]

\* lines 105-121: what the summarizer did becomes the result
PipelineResult(text, answered, summary, message) ==
    [transcript |-> text,
     summary |-> IF answered THEN Some(summary) ELSE Null,
     summarizer_error |->
        IF answered THEN Null ELSE Some(ErrorText(message, "RuntimeError"))]

\* SummarizerInput with the joined transcript handed over, corrected or not
SummarizerInputUncorrected(joined, corrected) == joined

\* line 108: llm.summarize(corrected_transcript, language=language)
SummarizerInput(joined, corrected) == corrected

\* lines 98-123: the summarizer, the optional cleanup, the result
PV_Summarize ==
    /\ ppc = "summarize"
    /\ \E constructed \in BOOLEAN, answered \in BOOLEAN, text \in SummaryChoices,
          message \in MessageChoices, cleanup \in BOOLEAN :
         IF ~constructed
         THEN /\ Raise("summarizer")
              /\ UNCHANGED <<calls, summarizer_input, result, audio_file>>
         ELSE /\ calls' = Append(calls, Call("summarize", 0,
                                             IF answered THEN "ok" ELSE "raised"))
              /\ summarizer_input' = Some(SummarizerInput(transcript, corrected_transcript))
              /\ audio_file' = IF cleanup THEN "unlinked" ELSE audio_file
              /\ result' = Some(PipelineResult(corrected_transcript, answered, text,
                                               message))
              /\ ppc' = "returned"
              /\ UNCHANGED error
    /\ UNCHANGED <<asr_backend, enable_image_context, frames_dir,
                   backend, chunk_count, transcripts, transcript, corrected_transcript,
                   frame_count, descriptions, image_context, chunk_tmpdir, frame_tmpdir>>
    /\ UNCHANGED outsidePipeline

(***************************************************************************)
(* scripts/process_video.py: main, the command-line entry point.           *)
(***************************************************************************)
CliBackendChoices == {"bailian", "local"}
LarkMessageChoices == {"", "lark network rejected request"}

CliStart ==
    /\ cpc = "start"
    /\ stdout = <<>>
    /\ cli_error = ""
    /\ download_tmpdir = "none"

\* an uncaught exception ends main
Abort(what) ==
    /\ cpc' = "aborted"
    /\ cli_error' = what

\* print(result): the repr of the result dict, with the keys it has at that moment
PrintedResult(res, published) ==
    [kind |-> "result", result |-> Some(res), lark_document |-> published, text |-> <<>>]

\* print(summary_text)
PrintedText(text) ==
    [kind |-> "text", result |-> Null, lark_document |-> FALSE, text |-> text]

\* print(f"Lark document created: {lark_doc['url']}")
PrintedUrl ==
    [kind |-> "url", result |-> Null, lark_document |-> TRUE, text |-> <<>>]

\* lines 207-252, up to the call of process_video: a URL is downloaded into a
\* temporary directory, a path must exist
Cli_Start ==
    /\ cpc = "start"
    /\ \E url \in BOOLEAN, found \in BOOLEAN :
         IF url
         THEN IF ~found
              THEN /\ Abort("download_video")
                   /\ download_tmpdir' = Released("live")
              ELSE /\ cpc' = "pipeline"
                   /\ download_tmpdir' = "live"
                   /\ UNCHANGED cli_error
         ELSE /\ UNCHANGED download_tmpdir
              /\ IF ~found
                 THEN Abort("FileNotFoundError")
                 ELSE /\ cpc' = "pipeline"
                      /\ UNCHANGED cli_error
    /\ UNCHANGED <<publish_to_lark, summary_only, stdout>>
    /\ UNCHANGED pipeVars
    /\ UNCHANGED outsideCli

\* lines 230-252: process_video runs; main passes neither enable_image_context nor
\* injected clients, so the correction stage is never entered
Cli_Pipeline ==
    /\ cpc = "pipeline"
    /\ \/ PV_Start
       \/ PV_Split
       \/ PV_Transcribe
       \/ PV_Join
       \/ PV_Summarize

\* lines 228-252: process_video has raised or returned; the with block of the URL
\* branch lets go of the download directory
Cli_PipelineDone ==
    /\ cpc = "pipeline"
    /\ ppc \in {"raised", "returned"}
    /\ download_tmpdir' = Released(download_tmpdir)
    /\ IF ppc = "raised"
       THEN Abort(error)
       ELSE /\ cpc' = "publish"
            /\ UNCHANGED cli_error
    /\ UNCHANGED <<publish_to_lark, summary_only, stdout>>
    /\ UNCHANGED pipeVars
    /\ UNCHANGED outsideCli

\* lines 276-277: create_summary_document raised LarkDocError; main re-raises it as a
\* RuntimeError with the same message
PublishFailed(message) ==
    /\ Abort(message)
    /\ UNCHANGED stdout

\* lines 255-277: the optional publication of the summary as a Lark document
Cli_Publish ==
    /\ cpc = "publish"
    /\ LET summary_text == result[1].summary
       IN  IF ~publish_to_lark
           THEN /\ cpc' = "print"
                /\ UNCHANGED <<stdout, cli_error, calls>>
           ELSE IF summary_text = Null \/ Len(Strip(summary_text[1])) = 0
           THEN /\ Abort("No summary content generated; cannot publish to Lark.")
                /\ UNCHANGED <<stdout, calls>>
           ELSE \E created \in BOOLEAN, message \in LarkMessageChoices :
                  IF created
                  THEN /\ calls' = Append(calls, Call("create_summary_document", 0, "ok"))
                       /\ stdout' = Append(stdout, PrintedUrl)
                       /\ cpc' = "print"
                       /\ UNCHANGED cli_error
                  ELSE /\ calls' = Append(calls,
                                          Call("create_summary_document", 0, "raised"))
                       /\ PublishFailed(message)
    /\ UNCHANGED <<publish_to_lark, summary_only, download_tmpdir>>
    /\ UNCHANGED <<asr_backend, enable_image_context, ppc, backend, chunk_count,
                   transcripts, transcript, corrected_transcript, frame_count,
                   descriptions, image_context, summarizer_input, result, error,
                   chunk_tmpdir, frames_dir, frame_tmpdir, audio_file>>
    /\ UNCHANGED outsideCli

\* lines 279-282: the summary alone when asked for and there is one, the result otherwise
Cli_Print ==
    /\ cpc = "print"
    /\ LET summary_text == result[1].summary
           published == Called("create_summary_document", "ok")
       IN  stdout' = Append(stdout,
                            IF summary_only /\ summary_text # Null
                            THEN PrintedText(summary_text[1])
                            ELSE PrintedResult(result[1], published))
    /\ cpc' = "exited"
    /\ UNCHANGED <<publish_to_lark, summary_only, cli_error, download_tmpdir>>
    /\ UNCHANGED pipeVars
    /\ UNCHANGED outsideCli

(***************************************************************************)
(* summarizer.py: TranscriptCorrector._extract_corrected_transcript.       *)
(* A response is a sequence of lexical units: the code fence, the word     *)
(* json, braces, the key "corrected_transcript" with its colon, string     *)
(* literals, a blank and a bare word.                                      *)
(***************************************************************************)
MaxParts == 3

\* the unit that stands for the three backquotes of a code fence
Fence == "<fence>"
JsonWord == "json"
KeyToken == "\"corrected_transcript\":"
StringTokens == {"\"a\"", "\" b \"", "\" \""}
Blanks == {" "}

\* the text between the quotes of a string literal
StringText(token) == CASE token = "\"a\"" -> <<"a">>
                       [] token = "\" b \"" -> <<" ", "b", " ">>
                       [] token = "\" \"" -> <<" ">>

\* the pieces responses are put together from
Pieces ==
    {<<Fence>>, <<Fence, JsonWord>>, <<JsonWord>>, <<"{">>, <<"}">>, <<" ">>, <<"x">>,
     <<"\"a\"">>}
        \cup {<<"{", KeyToken, s, "}">> : s \in StringTokens}

RECURSIVE Responses(_)
Responses(n) ==
    IF n = 0 THEN {<<>>}
    ELSE LET shorter == Responses(n - 1)
         IN  shorter \cup {r \o p : r \in shorter, p \in Pieces}

\* str.strip() on a sequence of units
RECURSIVE LStripUnits(_)
LStripUnits(s) == IF Len(s) > 0 /\ s[1] \in Blanks THEN LStripUnits(Tail(s)) ELSE s

RECURSIVE RStripUnits(_)
RStripUnits(s) ==
    IF Len(s) > 0 /\ s[Len(s)] \in Blanks THEN RStripUnits(SubSeq(s, 1, Len(s) - 1)) ELSE s

StripUnits(s) == RStripUnits(LStripUnits(s))

\* line 184: re.search of fence (?:json)?\s*(.*?) fence, DOTALL: the leftmost fence
\* that has a closing fence after it; group(1) is what lies between the two, after an
\* optional json and any blanks.  <<>> when there is no match, <<group(1)>> otherwise.
FencedGroup(text) ==
    LET opens == {i \in 1..Len(text) :
                    text[i] = Fence /\ \E j \in (i + 1)..Len(text) : text[j] = Fence}
    IN  IF opens = {} THEN <<>>
        ELSE LET i == CHOOSE a \in opens : \A b \in opens : a <= b
                 j == CHOOSE a \in (i + 1)..Len(text) :
                          text[a] = Fence /\ \A b \in (i + 1)..(a - 1) : text[b] # Fence
                 inner == SubSeq(text, i + 1, j - 1)
                 body == IF Len(inner) > 0 /\ inner[1] = JsonWord THEN Tail(inner)
                         ELSE inner
             IN  <<LStripUnits(body)>>

\* line 190: re.search(r"\{.*\}", content, DOTALL): from the first { to the last }
StructuredSnippet(raw) ==
    LET opens == {i \in 1..Len(raw) :
                    raw[i] = "{" /\ \E j \in (i + 1)..Len(raw) : raw[j] = "}"}
    IN  IF opens = {} THEN <<>>
        ELSE LET i == CHOOSE a \in opens : \A b \in opens : a <= b
                 j == CHOOSE a \in (i + 1)..Len(raw) :
                          raw[a] = "}" /\ \A b \in (a + 1)..Len(raw) : raw[b] # "}"
             IN  <<SubSeq(raw, i, j)>>

\* lines 183-186: the text the candidates start from
ExtractText(raw) ==
    LET text == StripUnits(raw)
        fenced == FencedGroup(text)
    IN  IF fenced # <<>> THEN StripUnits(fenced[1]) ELSE text

\* lines 188-194: the candidates, in the order they are tried
Candidates(raw) ==
    LET text == ExtractText(raw)
        fenced == FencedGroup(StripUnits(raw))
        structured == StructuredSnippet(raw)
    IN  IF fenced = <<>> /\ structured # <<>>
           /\ Len(StripUnits(structured[1])) > 0 /\ StripUnits(structured[1]) # text
        THEN <<text, StripUnits(structured[1])>>
        ELSE <<text>>

\* json.loads on units with the blanks between them dropped: a value is a string
\* literal, {} or {"corrected_transcript": value}
RECURSIVE ParseValue(_)
ParseValue(t) ==
    LET bad == [ok |-> FALSE, kind |-> "", get |-> <<"absent">>, rest |-> <<>>]
    IN  IF Len(t) = 0 THEN bad
        ELSE IF t[1] \in StringTokens
        THEN [ok |-> TRUE, kind |-> "str", get |-> <<"str", StringText(t[1])>>,
              rest |-> Tail(t)]
        ELSE IF t[1] # "{" \/ Len(t) < 2 THEN bad
        ELSE IF t[2] = "}"
        THEN [ok |-> TRUE, kind |-> "dict", get |-> <<"absent">>, rest |-> Tail(Tail(t))]
        ELSE IF t[2] # KeyToken THEN bad
        ELSE LET v == ParseValue(Tail(Tail(t)))
             IN  IF v.ok /\ Len(v.rest) > 0 /\ v.rest[1] = "}"
                 THEN [ok |-> TRUE, kind |-> "dict",
                       get |-> IF v.kind = "str" THEN v.get ELSE <<"other">>,
                       rest |-> Tail(v.rest)]
                 ELSE bad

\* what payload.get("corrected_transcript") can be after a repair: nothing, a string,
\* something that is not a string
RepairedPayloads ==
    {Null, Some(<<"absent">>), Some(<<"other">>), Some(<<"str", <<"a">>>>),
     Some(<<"str", <<" ">>>>)}

\* lines 211-223, _parse_candidate: the payload (what its "corrected_transcript" is) or
\* Null; json_repair, when installed, is asked only after json.loads has failed
ParseCandidate(candidate, repaired) ==
    LET v == ParseValue(SelectSeq(candidate, LAMBDA u : u \notin Blanks))
    IN  IF v.ok /\ Len(v.rest) = 0
        THEN IF v.kind = "dict" THEN Some(v.get) ELSE Null
        ELSE repaired

\* lines 203-205: the candidate gives the answer
Yields(payload) ==
    /\ payload # Null
    /\ payload[1][1] = "str"
    /\ Len(Strip(payload[1][2])) > 0

\* lines 196-205: the index of the first candidate that gives the answer, 0 if none
FirstYield(candidates, repairs) ==
    LET good == {k \in 1..Len(candidates) :
                    /\ Len(StripUnits(candidates[k])) > 0
                    /\ Yields(ParseCandidate(StripUnits(candidates[k]), repairs[k]))}
    IN  IF good = {} THEN 0 ELSE CHOOSE a \in good : \A b \in good : a <= b

ExtractStart ==
    /\ epc = "call"
    /\ extract_result = <<>>
    /\ yielded = 0

\* lines 207-209: the text that is returned when no candidate gave an answer; when it
\* is empty the function raises
FallbackText(raw) == ExtractText(raw)

\* lines 181-209: _extract_corrected_transcript
Extract ==
    /\ epc = "call"
    /\ LET candidates == Candidates(content)
           fallback == FallbackText(content)
       IN  \E r \in RepairedPayloads \X RepairedPayloads :
         LET k == FirstYield(candidates, r)
         IN  /\ yielded' = k
             /\ IF k # 0
                THEN /\ epc' = "returned"
                     /\ extract_result' =
                            Strip(ParseCandidate(StripUnits(candidates[k]), r[k])[1][2])
                ELSE IF Len(fallback) > 0
                THEN /\ epc' = "returned"
                     /\ extract_result' = fallback
                ELSE /\ epc' = "raised"
                     /\ UNCHANGED extract_result
    /\ UNCHANGED content
    /\ UNCHANGED outsideExtract

(***************************************************************************)
(* lark_docs.py: create_summary_document and the tenant-token cache.       *)
(***************************************************************************)
TokenRefreshInterval == 7200

CachedToken == "t-cached"
OtherToken == "t-other"
FreshToken == "t-fresh"
NotAString == "#not-a-string"

\* the cache file as the call finds it
CacheFile(kind, token, updated_at) ==
    [kind |-> kind, token |-> token, updated_at |-> updated_at]

\* the moments a cached token may carry, around the expiry, for a call made at t
StampChoices(t) ==
    {Some(t - TokenRefreshInterval - 1), Some(t - TokenRefreshInterval),
     Some(t - TokenRefreshInterval + 1), Some(t), Some(t + 1), Null}

\* no file, a file that cannot be read, a file that is not JSON, JSON that is not an
\* object, and objects with every kind of token and updated_at
CacheChoices(t) ==
    {CacheFile(k, NotAString, Null) : k \in {"missing", "unreadable", "garbage", "nonobject"}}
        \cup {CacheFile("object", token, stamp) :
                token \in {NotAString, "", CachedToken}, stamp \in StampChoices(t)}

\* lines 52-66, _load_cached_tenant_token: None, the pair (token, updated_at), or the
\* AttributeError of data.get on a JSON value that is not an object
LoadCached(file) ==
    IF file.kind \in {"missing", "unreadable", "garbage"}
    THEN [raises |-> FALSE, value |-> Null]
    ELSE IF file.kind = "nonobject" THEN [raises |-> TRUE, value |-> Null]
    ELSE IF file.token = NotAString \/ file.token = "" THEN [raises |-> FALSE, value |-> Null]
    ELSE IF file.updated_at = Null THEN [raises |-> FALSE, value |-> Null]
    ELSE [raises |-> FALSE, value |-> Some(<<file.token, file.updated_at[1]>>)]

\* lines 113 and 124: now - updated_at < _TOKEN_REFRESH_INTERVAL
StillFresh(t, updated_at) == t - updated_at < TokenRefreshInterval

\* lines 107-114 and 121-125: the token taken from the arguments or the cache without
\* a request, Null when a request is needed
TokenWithoutRequest(provided, cached, t) ==
    IF cached = Null THEN Null
    ELSE IF provided # ""
    THEN IF cached[1][1] = provided /\ StillFresh(t, cached[1][2]) THEN Some(provided)
         ELSE Null
    ELSE IF StillFresh(t, cached[1][2]) THEN Some(cached[1][1])
    ELSE Null

LarkStart ==
    /\ lpc = "call"
    /\ tenant_token = ""
    /\ token_requests = <<>>
    /\ cache_writes = <<>>
    /\ doc_calls = <<>>
    /\ messages = <<>>
    /\ lark_result = Null
    /\ lark_error = ""

LarkRaise(what) ==
    /\ lpc' = "raised"
    /\ lark_error' = what

\* lines 420-436: the checks of the arguments, then _resolve_tenant_access_token
\* (lines 98-129) with _request_tenant_access_token (77-95) and
\* _store_cached_tenant_token (69-74)
L_Resolve ==
    /\ lpc = "call"
    /\ \E blank \in BOOLEAN, credentials \in BOOLEAN, wait \in 0..1, took \in 0..1,
          granted \in BOOLEAN, stored \in BOOLEAN :
         LET loaded == LoadCached(cache)
             ready == TokenWithoutRequest(provided_token, loaded.value, now)
         IN  IF blank
             THEN /\ LarkRaise("Summary content is empty")
                  /\ UNCHANGED <<tenant_token, token_requests, cache, cache_writes>>
             ELSE IF ~credentials
             THEN /\ LarkRaise("Lark app credentials are missing")
                  /\ UNCHANGED <<tenant_token, token_requests, cache, cache_writes>>
             ELSE IF loaded.raises
             THEN /\ LarkRaise("AttributeError")
                  /\ UNCHANGED <<tenant_token, token_requests, cache, cache_writes>>
             ELSE IF ready # Null
             THEN /\ tenant_token' = ready[1]
                  /\ lpc' = "resolved"
                  /\ UNCHANGED <<token_requests, cache, cache_writes, lark_error>>
             ELSE /\ token_requests' = Append(token_requests, now + wait)
                  /\ IF ~granted
                     THEN /\ LarkRaise("Failed to obtain tenant access token")
                          /\ UNCHANGED <<tenant_token, cache, cache_writes>>
                     ELSE /\ tenant_token' = FreshToken
                          /\ lpc' = "resolved"
                          /\ UNCHANGED lark_error
                          /\ IF stored
                             THEN /\ cache' = CacheFile("object", FreshToken,
                                                        Some(now + wait + took))
                                  /\ cache_writes' = Append(cache_writes, "ok")
                             ELSE /\ cache_writes' = Append(cache_writes, "OSError")
                                  /\ UNCHANGED cache
    /\ UNCHANGED <<provided_token, user_token_given, receiver_given, now, cache_before,
                   doc_calls, messages, lark_result>>
    /\ UNCHANGED outsideLark

\* lines 159-164, _ensure_client_builder: the credential the document calls carry
Credential(user_token, tenant) ==
    IF user_token THEN "user" ELSE IF tenant # "" THEN tenant ELSE "app"

\* Retries that also retries under a tenant token that was provided
RetriesProvided(first, user_token, provided, tenant) ==
    first = "refused" /\ user_token /\ tenant # ""

\* lines 460-462: a refused creation is tried once more when a user token was in use,
\* no tenant token was provided and a tenant token was resolved
Retries(first, user_token, provided, tenant) ==
    first = "refused" /\ user_token /\ provided = "" /\ tenant # ""

\* lines 438-504: the document is created, with one more attempt under the tenant
\* token when the user token was refused, then the blocks are inserted
L_Create ==
    /\ lpc = "resolved"
    /\ \E first \in {"ok", "refused", "exception"},
          second \in {"ok", "refused", "exception"},
          blocks \in BOOLEAN, inserted \in BOOLEAN :
         LET cred1 == Credential(user_token_given, tenant_token)
             retry == Retries(first, user_token_given, provided_token, tenant_token)
             cred2 == Credential(FALSE, tenant_token)
             attempts == IF retry
                         THEN <<<<"create", cred1, first>>, <<"create", cred2, second>>>>
                         ELSE <<<<"create", cred1, first>>>>
             created == first = "ok" \/ (retry /\ second = "ok")
             cred == IF retry THEN cred2 ELSE cred1
         IN  IF ~created
             THEN /\ doc_calls' = doc_calls \o attempts
                  /\ lark_error' = IF first = "exception" THEN "exception"
                                   ELSE IF retry /\ second = "exception" THEN "exception"
                                   ELSE IF retry THEN "tenant token fallback also failed"
                                   ELSE "Failed to create Lark document"
                  /\ UNCHANGED lark_result
             ELSE IF blocks /\ ~inserted
             THEN /\ doc_calls' = doc_calls \o attempts \o <<<<"insert", cred, "refused">>>>
                  /\ lark_error' = "Failed to insert summary into Lark document"
                  /\ UNCHANGED lark_result
             ELSE /\ doc_calls' = doc_calls \o attempts \o
                        (IF blocks THEN <<<<"insert", cred, "ok">>>> ELSE <<>>)
                  /\ lark_result' = Some("document")
                  /\ UNCHANGED lark_error
    /\ lpc' = "created"
    /\ UNCHANGED <<provided_token, user_token_given, receiver_given, now, cache,
                   cache_before, tenant_token, token_requests, cache_writes, messages>>
    /\ UNCHANGED outsideLark

\* Notifies that stays silent about a failure
NotifiesSuccessOnly(tenant, receiver, res) ==
    tenant # "" /\ receiver /\ res # Null

\* line 506: a personal message is sent when a tenant token was resolved and a
\* receiver is given (attempted is true once the try block is entered)
Notifies(tenant, receiver, res) ==
    tenant # "" /\ receiver

\* lines 507-516: the success text, or the failure text with the error in it
NotificationText(res, err) ==
    IF res # Null THEN <<"created", res[1]>> ELSE <<"failed", err>>

\* lines 506-528: the personal message, then the result or the error
L_Notify ==
    /\ lpc = "created"
    /\ \E sent \in BOOLEAN :
         messages' = IF Notifies(tenant_token, receiver_given, lark_result)
                     THEN Append(messages,
                                 <<NotificationText(lark_result, lark_error),
                                   IF sent THEN "ok" ELSE "raised">>)
                     ELSE messages
    /\ lpc' = IF lark_error # "" \/ lark_result = Null THEN "raised" ELSE "returned"
    /\ UNCHANGED <<provided_token, user_token_given, receiver_given, now, cache,
                   cache_before, tenant_token, token_requests, cache_writes, doc_calls,
                   lark_result, lark_error>>
    /\ UNCHANGED outsideLark

(***************************************************************************)
(* The specifications.                                                     *)
(***************************************************************************)
\* the extraction is not part of the run
ExtractIdle ==
    /\ content = <<>>
    /\ ExtractStart

\* create_summary_document is not part of the run
LarkIdle ==
    /\ provided_token = ""
    /\ user_token_given = FALSE
    /\ receiver_given = FALSE
    /\ now = 2 * TokenRefreshInterval
    /\ cache_before = CacheFile("missing", NotAString, Null)
    /\ cache = cache_before
    /\ LarkStart

SplitInit ==
    /\ total_ms \in {k * Tick : k \in 0..MaxCells}
    /\ min_silence_len_ms \in MinSilenceLenChoices
    /\ detected \in SilenceLists(total_ms, min_silence_len_ms)
    /\ max_duration \in MaxDurationChoices
    /\ keep_silence_ms \in KeepSilenceChoices
    /\ output_dir_given \in BOOLEAN
    /\ SplitStart
    /\ asr_backend = "bailian"
    /\ enable_image_context = FALSE
    /\ PipeStart
    /\ publish_to_lark = FALSE
    /\ summary_only = FALSE
    /\ CliStart
    /\ ExtractIdle
    /\ LarkIdle

SplitNext == SplitEnter \/ SweepStep \/ SweepReturn

SplitSpec == SplitInit /\ [][SplitNext]_vars

\* the segmenter on the audios that have to be split, with keep_silence_ms >= 0; the
\* call runs on: the loop takes its next iteration, or the function returns
ProgressInit ==
    /\ total_ms \in {k * Tick : k \in 0..MaxProgressCells}
    /\ min_silence_len_ms \in MinSilenceLenChoices
    /\ detected \in SilenceLists(total_ms, min_silence_len_ms)
    /\ max_duration \in {d \in MaxDurationChoices : 0 < d /\ d < total_ms}
    /\ keep_silence_ms \in {k \in KeepSilenceChoices : k >= 0}
    /\ output_dir_given = TRUE
    /\ SplitStart
    /\ asr_backend = "bailian"
    /\ enable_image_context = FALSE
    /\ PipeStart
    /\ publish_to_lark = FALSE
    /\ summary_only = FALSE
    /\ CliStart
    /\ ExtractIdle
    /\ LarkIdle

ProgressSpec == ProgressInit /\ [][SplitNext]_vars /\ WF_vars(SplitNext)

\* the segmenter on a recording of 125 seconds, at the durations of real use
ScenarioSilences == <<<<59000, 59600>>, <<119000, 119700>>>>

ScenarioIntervals ==
    {<<59000, 59600>>, <<119000, 119700>>, <<59000, 65000>>, <<30000, 31000>>,
     <<70000, 70800>>, <<100000, 101000>>}

ScenarioSilenceLists ==
    UNION {{r \in [1..n -> ScenarioIntervals] :
                \A i \in 1..(n - 1) : r[i][2] < r[i + 1][1]} : n \in 0..MaxSilences}

ScenarioInit ==
    /\ total_ms = 125000
    /\ min_silence_len_ms = DefaultMinSilenceLenMs
    /\ detected \in ScenarioSilenceLists
    /\ max_duration \in {30000, 60000}
    /\ keep_silence_ms \in {0, 500}
    /\ output_dir_given \in BOOLEAN
    /\ SplitStart
    /\ asr_backend = "bailian"
    /\ enable_image_context = FALSE
    /\ PipeStart
    /\ publish_to_lark = FALSE
    /\ summary_only = FALSE
    /\ CliStart
    /\ ExtractIdle
    /\ LarkIdle

ScenarioSpec == ScenarioInit /\ [][SplitNext]_vars

PipelineInit ==
    /\ asr_backend \in BackendChoices
    /\ enable_image_context \in BOOLEAN
    /\ PipeStart
    /\ total_ms = 0
    /\ min_silence_len_ms = DefaultMinSilenceLenMs
    /\ detected = <<>>
    /\ max_duration = 0
    /\ keep_silence_ms = 0
    /\ output_dir_given = TRUE
    /\ SplitStart
    /\ publish_to_lark = FALSE
    /\ summary_only = FALSE
    /\ CliStart
    /\ ExtractIdle
    /\ LarkIdle

PipelineNext ==
    \/ PV_Start
    \/ PV_Split
    \/ PV_Transcribe
    \/ PV_Join
    \/ AIC_Extract
    \/ AIC_Describe
    \/ AIC_Correct
    \/ PV_Summarize

PipelineSpec == PipelineInit /\ [][PipelineNext]_vars

\* one run of the command line, process_video included
CliInit ==
    /\ asr_backend \in CliBackendChoices
    /\ enable_image_context = FALSE
    /\ publish_to_lark \in BOOLEAN
    /\ summary_only \in BOOLEAN
    /\ CliStart
    /\ ExtractIdle
    /\ LarkIdle
    /\ PipeStart
    /\ total_ms = 0
    /\ min_silence_len_ms = DefaultMinSilenceLenMs
    /\ detected = <<>>
    /\ max_duration = 0
    /\ keep_silence_ms = 0
    /\ output_dir_given = TRUE
    /\ SplitStart

CliNext ==
    \/ Cli_Start
    \/ Cli_Pipeline
    \/ Cli_PipelineDone
    \/ Cli_Publish
    \/ Cli_Print

CliSpec == CliInit /\ [][CliNext]_vars

\* one call of _extract_corrected_transcript on every response of the bounded space
ExtractInit ==
    /\ content \in Responses(MaxParts)
    /\ ExtractStart
    /\ total_ms = 0
    /\ min_silence_len_ms = DefaultMinSilenceLenMs
    /\ detected = <<>>
    /\ max_duration = 0
    /\ keep_silence_ms = 0
    /\ output_dir_given = TRUE
    /\ SplitStart
    /\ asr_backend = "bailian"
    /\ enable_image_context = FALSE
    /\ PipeStart
    /\ publish_to_lark = FALSE
    /\ summary_only = FALSE
    /\ CliStart
    /\ LarkIdle

ExtractNext == Extract

ExtractSpec == ExtractInit /\ [][ExtractNext]_vars

\* one call of create_summary_document
LarkInit ==
    /\ provided_token \in {"", CachedToken, OtherToken}
    /\ user_token_given \in BOOLEAN
    /\ receiver_given \in BOOLEAN
    /\ now = 2 * TokenRefreshInterval
    /\ cache_before \in CacheChoices(now)
    /\ cache = cache_before
    /\ LarkStart
    /\ total_ms = 0
    /\ min_silence_len_ms = DefaultMinSilenceLenMs
    /\ detected = <<>>
    /\ max_duration = 0
    /\ keep_silence_ms = 0
    /\ output_dir_given = TRUE
    /\ SplitStart
    /\ asr_backend = "bailian"
    /\ enable_image_context = FALSE
    /\ PipeStart
    /\ publish_to_lark = FALSE
    /\ summary_only = FALSE
    /\ CliStart
    /\ content = <<>>
    /\ ExtractStart

LarkNext ==
    \/ L_Resolve
    \/ L_Create
    \/ L_Notify

LarkSpec == LarkInit /\ [][LarkNext]_vars

(***************************************************************************)
(* Properties of the segmenter, checked under SplitSpec.                   *)
(***************************************************************************)
Sweeping == spc \in {"sweep", "returned"} /\ detect_ran

\* C1 (coverage): with keep_silence_ms >= 0 the segments of the sweep, exported or
\* dropped, start at 0, each starts where the previous one ended, none is empty, none
\* goes past total_ms, and once the sweep returns the last one ends at total_ms.
C1_Coverage ==
    (Sweeping /\ keep_silence_ms >= 0) =>
        /\ \A i \in 1..Len(sweep) :
             /\ sweep[i].segment_start = (IF i = 1 THEN 0 ELSE sweep[i - 1].segment_end)
             /\ sweep[i].segment_start < sweep[i].segment_end
             /\ sweep[i].segment_end <= total_ms
        /\ segment_start = (IF Len(sweep) = 0 THEN 0 ELSE sweep[Len(sweep)].segment_end)
        /\ spc = "returned" =>
             /\ Len(sweep) > 0
             /\ sweep[Len(sweep)].segment_end = total_ms

\* a finished sweep of three segments or more, with a cut in a silence, a dropped
\* segment, an exported one and a keep-silence extension
C1_Witness ==
    /\ spc = "returned"
    /\ keep_silence_ms > 0
    /\ Len(sweep) >= 3
    /\ \E i \in 1..Len(sweep) : sweep[i].best_idx # None
    /\ \E i \in 1..Len(sweep) : sweep[i].index = 0
    /\ \E i \in 1..Len(sweep) : sweep[i].index # 0

\* C2 (duration bound): every exported chunk lasts at most
\* max_duration_ms + keep_silence_ms.
C2_DurationBound ==
    Sweeping =>
        \A i \in 1..Len(sweep) :
            sweep[i].index # 0 =>
                sweep[i].duration_ms <= MaxDurationMs(max_duration) + keep_silence_ms

\* C6 (short-circuit): an audio no longer than max_duration_ms comes back as the
\* one-element list [source]; no silence detection, no export, no directory.
C6_ShortCircuit ==
    (/\ spc # "call"
     /\ MaxDurationMs(max_duration) > 0
     /\ total_ms <= MaxDurationMs(max_duration)) =>
        /\ spc = "returned"
        /\ segments = <<SourcePath>>
        /\ ~detect_ran
        /\ ~dir_created
        /\ Len(exported) = 0
        /\ Len(sweep) = 0

\* the boundary: an audio exactly max_duration_ms long, an output directory asked for
C6_Witness ==
    /\ spc = "returned"
    /\ total_ms > 0
    /\ total_ms = MaxDurationMs(max_duration)
    /\ output_dir_given
    /\ Len(detected) > 0

(***************************************************************************)
(* Properties of the pipeline, checked under PipelineSpec.                 *)
(***************************************************************************)
\* the text without its leading and trailing whitespace
Trim(s) ==
    LET solid == {i \in 1..Len(s) : s[i] \notin Whitespace}
    IN  IF solid = {} THEN <<>>
        ELSE SubSeq(s, CHOOSE i \in solid : \A j \in solid : i <= j,
                       CHOOSE i \in solid : \A j \in solid : i >= j)

\* the transcript grown part by part: a blank part adds nothing, any other part adds
\* its trimmed text, after a blank line unless it is the first
RECURSIVE GrowTranscript(_, _, _)
GrowTranscript(acc, parts, i) ==
    IF i > Len(parts) THEN acc
    ELSE LET t == Trim(parts[i])
         IN  GrowTranscript(IF Len(t) = 0 THEN acc
                            ELSE IF Len(acc) = 0 THEN t
                            ELSE acc \o <<"\n", "\n">> \o t,
                            parts, i + 1)

ExpectedTranscript == GrowTranscript(<<>>, transcripts, 1)

StageErrors == {"extract_video_frames", "vision_client", "describe_image",
                "transcript_corrector", "correct"}

\* the loop over the chunks is over and the transcript was joined
TranscriptBuilt ==
    \/ ppc \in {"frames", "describe", "summarize", "returned"}
    \/ ppc = "raised" /\ error \in StageErrors \cup {"summarizer"}

StageCalls == {"extract_video_frames", "describe_image", "correct"}

StageEntered == \E k \in 1..Len(calls) : calls[k][1] \in StageCalls

\* C3 (transcript join): the transcript is the join with "\n\n" of the trimmed outputs
\* that are not blank, in chunk order; blank outputs add neither text nor separator;
\* when all are blank the transcript is "" and the run goes on to the summarizer.
C3_TranscriptJoin ==
    TranscriptBuilt =>
        /\ transcript = ExpectedTranscript
        /\ (\A i \in 1..Len(transcripts) : Len(Trim(transcripts[i])) = 0) =>
             /\ Len(transcript) = 0
             /\ ppc \in {"summarize", "returned"} \/ error = "summarizer"

\* three outputs, a blank one between two that are not, the last one trimmed
C3_Witness ==
    /\ ppc = "returned"
    /\ Len(transcripts) = 3
    /\ Len(Trim(transcripts[1])) > 0
    /\ Len(transcripts[2]) > 0
    /\ Len(Trim(transcripts[2])) = 0
    /\ Len(Trim(transcripts[3])) > 0
    /\ Trim(transcripts[3]) # transcripts[3]

\* C4 (summary isolation): when summarize raises, process_video returns; the result
\* carries the full transcript (the corrector's when correction ran), a null summary
\* and a non-empty summarizer_error.
C4_SummaryIsolation ==
    Called("summarize", "raised") =>
        /\ ppc = "returned"
        /\ error = ""
        /\ result # Null
        /\ result[1].transcript = (IF Called("correct", "ok") THEN corrected_transcript
                                   ELSE ExpectedTranscript)
        /\ Called("correct", "ok") => result[1].transcript \in CorrectionChoices
        /\ result[1].summary = Null
        /\ result[1].summarizer_error # Null
        /\ result[1].summarizer_error[1] # ""

\* the summarizer raised an exception whose message is empty, after two chunks
C4_Witness ==
    /\ Called("summarize", "raised")
    /\ Len(transcripts) >= 2
    /\ Len(transcript) > 0
    /\ result # Null
    /\ result[1].summarizer_error = Some("RuntimeError")

\* C5 (ASR failure is fatal and fail-fast): a transcribe call that raises is the last
\* call of the run: process_video raises, returns nothing, transcribes no later chunk
\* and reaches neither the correction stage nor the summarizer.
C5_AsrFailFast ==
    \A k \in 1..Len(calls) :
        (calls[k][1] = "transcribe" /\ calls[k][3] = "raised") =>
            /\ k = Len(calls)
            /\ ppc = "raised"
            /\ error = "transcribe"
            /\ result = Null
            /\ summarizer_input = Null
            /\ Len(transcripts) = calls[k][2] - 1
            /\ \A j \in 1..(k - 1) :
                 /\ calls[j][1] \in {"extract_audio", "split_audio_on_silence",
                                     "transcribe"}
                 /\ calls[j][1] = "transcribe" => calls[j][2] < calls[k][2]

\* the second of three chunks fails, in a run that would have corrected the transcript
C5_Witness ==
    /\ error = "transcribe"
    /\ chunk_count = 3
    /\ Len(transcripts) = 1
    /\ Len(Trim(transcripts[1])) > 0
    /\ enable_image_context
    /\ backend = "local"

\* C7 (result exclusivity): in every result, summary is null exactly when
\* summarizer_error is present.
C7_ResultExclusivity ==
    result # Null =>
        ((result[1].summary = Null) <=> (result[1].summarizer_error # Null))

\* both kinds of result are returned; here the summarizer answered with an empty text
C7_Witness ==
    /\ result # Null
    /\ Called("summarize", "ok")
    /\ result[1].summary = Some(<<>>)

GateHolds ==
    /\ enable_image_context
    /\ asr_backend \in {"local", "LOCAL"}
    /\ Len(Trim(ExpectedTranscript)) > 0

\* C8 (correction gate): the correction stage is entered only when image context is
\* enabled, the backend is local and the joined transcript is not blank; otherwise no
\* frame is extracted, no vision or corrector call is made, and the summarizer gets,
\* and the result carries, the uncorrected join.
C8_CorrectionGate ==
    /\ StageEntered => GateHolds
    /\ (TranscriptBuilt /\ ~GateHolds) =>
         /\ ~StageEntered
         /\ ppc # "frames"
         /\ frames_dir = "unset"
         /\ summarizer_input # Null => summarizer_input[1] = ExpectedTranscript
         /\ result # Null => result[1].transcript = ExpectedTranscript

\* image context enabled and a transcript to correct, but the cloud backend
C8_Witness ==
    /\ ppc = "returned"
    /\ enable_image_context
    /\ asr_backend = "bailian"
    /\ Len(transcript) > 0
    /\ ~StageEntered

ZeroFrames == Called("extract_video_frames", "ok") /\ frame_count = 0

AllBlank ==
    /\ frame_count > 0
    /\ Len(descriptions) = frame_count
    /\ ppc # "describe"
    /\ \A i \in 1..frame_count : Len(Trim(descriptions[i])) = 0

\* C9 (no-op correction): with zero frames, or with frames whose descriptions are all
\* blank, the stage hands back the transcript it was given, never calls the corrector
\* and raises nothing; the summarizer gets that transcript.
C9_NoOpCorrection ==
    (ZeroFrames \/ AllBlank) =>
        /\ corrected_transcript = ExpectedTranscript
        /\ Len(image_context) = 0
        /\ ~Called("correct", "ok") /\ ~Called("correct", "raised")
        /\ error \notin StageErrors
        /\ ppc \in {"summarize", "returned"} \/ error = "summarizer"
        /\ summarizer_input # Null => summarizer_input[1] = ExpectedTranscript

\* two frames, both described with whitespace only
C9_Witness ==
    /\ AllBlank
    /\ frame_count = 2
    /\ Len(descriptions[1]) > 0
    /\ ppc = "returned"
    /\ Len(transcript) > 0

\* C10 (correction failures are fail-hard): a describe_image or correct call that
\* raises is the last call of the run: process_video raises, returns nothing and never
\* calls the summarizer; a summarize call that raises is caught.
C10_CorrectionFailHard ==
    /\ \A k \in 1..Len(calls) :
         (calls[k][1] \in {"describe_image", "correct"} /\ calls[k][3] = "raised") =>
            /\ k = Len(calls)
            /\ ppc = "raised"
            /\ error = calls[k][1]
            /\ result = Null
            /\ summarizer_input = Null
    /\ Called("summarize", "raised") => ppc = "returned" /\ result # Null

\* the corrector raised, with a transcript in hand
C10_Witness ==
    /\ error = "correct"
    /\ Len(transcript) > 0
    /\ Len(image_context) > 0
    /\ Called("describe_image", "ok")

PreSplitErrors == {"extract_audio", "unsupported_backend", "asr_client"}

\* C11 (scoped temporary directories): the chunk directory is there during every
\* transcribe call and gone once transcription has ended, with or without an
\* exception; the frame temp directory, made only when no frame_output_dir is given,
\* is gone whenever the correction stage has handed control back, on success, on both
\* no-op returns and on every exception; a caller's frame_output_dir is never deleted.
C11_ScopedTempDirs ==
    /\ (chunk_tmpdir = "live") <=> (ppc = "transcribe")
    /\ (chunk_tmpdir = "none") <=>
            (ppc \in {"start", "split"} \/ (ppc = "raised" /\ error \in PreSplitErrors))
    /\ Called("transcribe", "ok") \/ Called("transcribe", "raised") =>
            chunk_tmpdir \in {"live", "released"}
    /\ frame_tmpdir = "live" => (ppc = "describe" /\ frames_dir = "temp")
    /\ (frames_dir = "temp" /\ ppc # "describe") => frame_tmpdir = "released"
    /\ frames_dir = "caller" => frame_tmpdir = "none"
    /\ frames_dir = "unset" => frame_tmpdir = "none"

\* a describe call raised while the frames were in a temporary directory, after the
\* chunks had been transcribed
C11_Witness ==
    /\ error = "describe_image"
    /\ frames_dir = "temp"
    /\ frame_tmpdir = "released"
    /\ chunk_tmpdir = "released"
    /\ Len(descriptions) = 1
    /\ chunk_count >= 2

(***************************************************************************)
(* Properties of the command line, checked under CliSpec.                  *)
(***************************************************************************)
\* the needle occurs in the text
Contains(text, needle) ==
    \E i \in 0..(Len(text) - Len(needle)) : SubSeq(text, i + 1, i + Len(needle)) = needle

\* a line of the output that shows the transcript: the printed result, or a text that
\* happens to hold it
ShowsTranscript(entry) ==
    \/ entry.kind = "result" /\ entry.result[1].transcript = corrected_transcript
    \/ entry.kind = "text" /\ Contains(entry.text, corrected_transcript)

\* C12 (CLI publish fallback): when --publish-to-lark is given, process_video returned
\* a non-empty summary and create_summary_document raised LarkDocError, main does not
\* abort: it goes on to print, and once it has exited its output shows the transcript.
C12_PublishFallback ==
    (publish_to_lark /\ Called("create_summary_document", "raised")) =>
        /\ cpc \in {"print", "exited"}
        /\ cli_error = ""
        /\ cpc = "exited" => \E i \in 1..Len(stdout) : ShowsTranscript(stdout[i])

\* C13 (transcript always recoverable): whenever process_video has returned a result,
\* main does not abort, whatever --publish-to-lark and --summary-only are and whether
\* or not the summarizer failed, and once it has exited its output shows the
\* transcript.
C13_TranscriptRecoverable ==
    (ppc = "returned" /\ cpc \in {"publish", "print", "exited", "aborted"}) =>
        /\ cpc # "aborted"
        /\ cpc = "exited" => \E i \in 1..Len(stdout) : ShowsTranscript(stdout[i])

(***************************************************************************)
(* Properties of the segmenter's validation, checked under SplitSpec.      *)
(***************************************************************************)
\* C14 (invalid duration fails fast): called with max_duration <= 0 the segmenter
\* raises before any I/O: the audio file is not read, no silence detection is run, no
\* directory is created and no chunk is exported.
C14_InvalidDurationFailsFast ==
    (spc # "call" /\ max_duration <= 0) =>
        /\ spc = "raised"
        /\ ~audio_read
        /\ ~detect_ran
        /\ ~dir_created
        /\ Len(exported) = 0

C16_UnknownBackendUpFront ==
    (ppc # "start" /\ Lower(asr_backend) \notin {"bailian", "local"}) =>
        /\ ppc = "raised"
        /\ error = "unsupported_backend"
        /\ Len(calls) = 0
        /\ audio_file = "none"
        /\ chunk_tmpdir = "none"
        /\ result = Null

(***************************************************************************)
(* The end-to-end segmentation scenario, checked under ScenarioSpec.       *)
(***************************************************************************)
Boundaries == [i \in 1..Len(sweep) |-> <<sweep[i].segment_start, sweep[i].segment_end>>]

CallsNamed(name) == {k \in 1..Len(calls) : calls[k][1] = name}

\* C18 (stage order and summarizer input): in a run that returns a result, summarize
\* is called exactly once, after every chunk has been transcribed and after every call
\* of the correction stage, with the stage left behind; the text it gets is the text
\* returned as result["transcript"]: the corrector's when correction ran, the joined
\* transcript otherwise.
C18_StageOrder ==
    result # Null =>
        /\ Cardinality(CallsNamed("summarize")) = 1
        /\ \A s \in CallsNamed("summarize") :
             /\ \A k \in CallsNamed("transcribe") : k < s /\ calls[k][3] = "ok"
             /\ \A k \in 1..Len(calls) : calls[k][1] \in StageCalls => k < s
        /\ Cardinality(CallsNamed("transcribe")) = chunk_count
        /\ Len(transcripts) = chunk_count
        /\ frame_tmpdir # "live"
        /\ summarizer_input = Some(result[1].transcript)
        /\ result[1].transcript = (IF Called("correct", "ok") THEN corrected_transcript
                                   ELSE ExpectedTranscript)
        /\ Called("correct", "ok") => result[1].transcript \in CorrectionChoices

\* correction ran and changed the transcript of two chunks before the summary
C18_Witness ==
    /\ result # Null
    /\ Called("correct", "ok")
    /\ chunk_count = 2
    /\ result[1].transcript # transcript
    /\ Called("summarize", "ok")

(***************************************************************************)
(* Properties of the corrector's output extraction, checked under          *)
(* ExtractSpec.                                                            *)
(***************************************************************************)
\* C19 (correction output extraction): the extraction raises only when the response is
\* empty after trimming; for every other response it returns a non-empty string: the
\* trimmed corrected_transcript of the first candidate that parses to an object with a
\* non-empty string under that key, and otherwise the raw trimmed response text.
C19_ExtractionTotal ==
    epc # "call" =>
        /\ epc = "raised" => Len(StripUnits(content)) = 0
        /\ Len(StripUnits(content)) > 0 => (epc = "returned" /\ Len(extract_result) > 0)
        /\ (epc = "returned" /\ yielded # 0) => Trim(extract_result) = extract_result
        /\ (epc = "returned" /\ yielded = 0) => extract_result = StripUnits(content)

\* the cache file, as the call finds it, holds a non-empty token younger than
\* TokenRefreshInterval
FreshCacheFound ==
    /\ cache_before.kind = "object"
    /\ cache_before.token \notin {NotAString, ""}
    /\ cache_before.updated_at # Null
    /\ now - cache_before.updated_at[1] < TokenRefreshInterval

\* the call got past the checks of its arguments, no token request was refused and no
\* write of the cache file failed
TokenResolutionOver ==
    /\ lpc # "call"
    /\ lark_error \notin {"Summary content is empty", "Lark app credentials are missing",
                          "Failed to obtain tenant access token"}
    /\ \A i \in 1..Len(cache_writes) : cache_writes[i] = "ok"

\* C20: with no tenant token provided, a cache file holding a non-empty token younger
\* than 7200 seconds is used with no token request and is left as it was; in every
\* other case of the cache file (missing, unreadable, malformed, expired) exactly one
\* token request is made, the token it obtains is the one the document calls carry
\* (when no user token takes its place), and the cache file then holds that token
\* with a stamp not before the request.
C20_TenantTokenCache ==
    (provided_token = "" /\ ~user_token_given /\ TokenResolutionOver) =>
        IF FreshCacheFound
        THEN /\ tenant_token = cache_before.token
             /\ token_requests = <<>>
             /\ cache = cache_before
             /\ \A i \in 1..Len(doc_calls) : doc_calls[i][2] = cache_before.token
        ELSE /\ Len(token_requests) = 1
             /\ tenant_token = FreshToken
             /\ \A i \in 1..Len(doc_calls) : doc_calls[i][2] = FreshToken
             /\ cache.kind = "object"
             /\ cache.token = FreshToken
             /\ cache.updated_at # Null
             /\ cache.updated_at[1] >= token_requests[1]

\* the call is over
LarkOver == lpc \in {"returned", "raised"}

\* the call reached the creation of the document
CreationReached == doc_calls # <<>>

\* C21: a call that reaches the creation of the document with a tenant token and a
\* receiver sends exactly one personal message, and only once the creation is over:
\* the success text when the document was created, the failure text with the error
\* otherwise.  The call then raises that error or returns the document, whether or
\* not sending the message raised.
C21_PublishNotification ==
    /\ ~LarkOver => messages = <<>>
    /\ (LarkOver /\ CreationReached /\ tenant_token # "" /\ receiver_given) =>
          /\ Len(messages) = 1
          /\ messages[1][1] = IF lark_result # Null /\ lark_error = ""
                              THEN <<"created", "document">>
                              ELSE <<"failed", lark_error>>
          /\ lpc = "returned" <=> (lark_result # Null /\ lark_error = "")
          /\ lpc = "raised" <=> lark_error # ""
    /\ (LarkOver /\ ~CreationReached) => messages = <<>>

\* a failed creation was reported, sending the report raised, and the call raised the
\* error of the creation
C21_Witness ==
    /\ lpc = "raised"
    /\ CreationReached
    /\ Len(messages) = 1
    /\ messages[1] = <<<<"failed", "Failed to create Lark document">>, "raised">>
    /\ lark_error = "Failed to create Lark document"

\* the creation attempts and the block insertions among the document calls
Creations == SelectSeq(doc_calls, LAMBDA c : c[1] = "create")
Insertions == SelectSeq(doc_calls, LAMBDA c : c[1] = "insert")

\* the tenant token was resolved and none was provided, while a user token is in use
FallbackAllowed == user_token_given /\ provided_token = "" /\ tenant_token # ""

\* a second attempt was made and it created the document
FallbackSucceeded == Len(Creations) = 2 /\ Creations[2][3] = "ok"

C30_ProvidedTenantToken ==
    (provided_token # "" /\ ~user_token_given /\ TokenResolutionOver) =>
        IF FreshCacheFound /\ cache_before.token = provided_token
        THEN /\ tenant_token = provided_token
             /\ token_requests = <<>>
             /\ cache_writes = <<>>
             /\ cache = cache_before
        ELSE /\ Len(token_requests) = 1
             /\ cache.kind = "object"
             /\ cache.token = FreshToken
             /\ tenant_token = FreshToken
             /\ \A i \in 1..Len(doc_calls) : doc_calls[i][2] = FreshToken

\* C26 (keep-silence extension): the end of a segment is moved by keep_silence_ms,
\* capped at total_ms, exactly when keep_silence_ms > 0 and the segment does not reach
\* total_ms; with keep_silence_ms zero or negative it stays where the cut put it.
C26_KeepSilenceExtension ==
    Sweeping =>
        \A i \in 1..Len(sweep) :
            sweep[i].segment_end =
                IF keep_silence_ms > 0 /\ sweep[i].before_keep < total_ms
                THEN Min(total_ms, sweep[i].before_keep + keep_silence_ms)
                ELSE sweep[i].before_keep

\* the silences a segment starting at start may be cut in: not over at start, and
\* starting min_chunk_ms or more after it
Eligible(start) ==
    {j \in 1..Len(silence_ranges) :
        /\ silence_ranges[j][2] > start
        /\ silence_ranges[j][1] >= start + MinChunkMs(MaxDurationMs(max_duration))}

\* those that start at or before target_end, and those that start after it within
\* the tolerance
EligibleEarly(start, target_end) ==
    {j \in Eligible(start) : silence_ranges[j][1] <= target_end}

EligibleLate(start, target_end) ==
    {j \in Eligible(start) :
        /\ silence_ranges[j][1] > target_end
        /\ silence_ranges[j][1] <= target_end
               + ToleranceMs(min_silence_len_ms, MaxDurationMs(max_duration))}

MiddleOf(j) == (silence_ranges[j][1] + silence_ranges[j][2]) \div 2

Highest(S) == CHOOSE j \in S : \A k \in S : k <= j
Lowest(S) == CHOOSE j \in S : \A k \in S : j <= k

\* the silence the segment is to be cut in, None for a hard cut
SplitChoice(start, target_end) ==
    IF EligibleEarly(start, target_end) # {} THEN Highest(EligibleEarly(start, target_end))
    ELSE IF EligibleLate(start, target_end) # {} THEN Lowest(EligibleLate(start, target_end))
    ELSE None

\* C22 (split-point selection): every segment of the sweep is cut at the middle of the
\* last eligible silence starting at or before target_end; failing that, at the middle
\* of the first eligible silence starting after target_end within the tolerance;
\* failing that, at target_end.
C22_SplitPointSelection ==
    Sweeping =>
        \A i \in 1..Len(sweep) :
            LET choice == SplitChoice(sweep[i].segment_start, sweep[i].target_end)
            IN  /\ sweep[i].best_idx = choice
                /\ sweep[i].cut = IF choice = None THEN sweep[i].target_end
                                  ELSE MiddleOf(choice)

\* C23 (minimum segment length): a segment of the sweep that does not end at total_ms
\* lasts min_chunk_ms or more, whether it was cut in a silence or hard-cut.
C23_MinimumSegmentLength ==
    Sweeping =>
        \A i \in 1..Len(sweep) :
            sweep[i].segment_end # total_ms =>
                sweep[i].segment_end - sweep[i].segment_start
                    >= MinChunkMs(MaxDurationMs(max_duration))

\* the iterations of the sweep whose chunk was exported
ExportedSteps == SelectSeq(sweep, LAMBDA r : r.index # 0)

\* C24 (drop rule and index contiguity): the chunk of an iteration is dropped exactly
\* when its rms is at or below the threshold and it is shorter than
\* min_export_duration_ms or than min_silence_len_ms, so a chunk with rms above the
\* threshold is always exported; the k-th chunk exported carries index k, whatever was
\* dropped before it; the list returned holds the chunks in time order; the files
\* written are pairwise distinct, none is the source, and they are the list returned.
C24_DropRuleAndIndices ==
    Sweeping =>
        /\ Len(sweep) > 0 =>
             LET last == sweep[Len(sweep)]
                 silent == chunk_rms <= DefaultSilentRmsThreshold
                 short == \/ last.duration_ms < DefaultMinExportDurationMs
                          \/ last.duration_ms < min_silence_len_ms
             IN  /\ last.index = 0 <=> (silent /\ short)
                 /\ ~silent => last.index # 0
        /\ \A k \in 1..Len(ExportedSteps) : ExportedSteps[k].index = k
        /\ Len(segments) = Len(ExportedSteps)
        /\ \A k \in 1..Len(segments) : segments[k] = ChunkPath(k)
        /\ exported = segments
        /\ \A k \in 1..Len(exported) :
             /\ exported[k] # SourcePath
             /\ \A l \in 1..Len(exported) : exported[k] = exported[l] => k = l
        /\ spc = "returned" =>
             \A k \in 1..(Len(ExportedSteps) - 1) :
                 ExportedSteps[k].segment_start < ExportedSteps[k + 1].segment_start

\* a finished sweep in which a silent short chunk was dropped between two exported
\* ones, and a short chunk was exported because it was loud
C24_Witness ==
    /\ spc = "returned"
    /\ \E i, j, k \in 1..Len(sweep) :
         /\ i < j /\ j < k
         /\ sweep[i].index = 1
         /\ sweep[j].index = 0
         /\ sweep[k].index = 2
         /\ k = Len(sweep)
         /\ sweep[k].duration_ms < DefaultMinExportDurationMs
         /\ chunk_rms > DefaultSilentRmsThreshold

\* C25 (monotonic silence pointer): silence_idx never decreases from one iteration of
\* the sweep to the next, and no silence it has moved past is eligible for the segment
\* that is cut next, nor for any later one.
C25_MonotonicSilencePointer ==
    Sweeping =>
        /\ \A i \in 1..Len(sweep) :
             (IF i = 1 THEN 1 ELSE sweep[i - 1].silence_idx) <= sweep[i].silence_idx
        /\ silence_idx = (IF Len(sweep) = 0 THEN 1 ELSE sweep[Len(sweep)].silence_idx)
        /\ \A i \in 1..Len(sweep) :
             \A j \in 1..Len(silence_ranges) :
                 (i > 1 /\ j < sweep[i - 1].silence_idx) =>
                     j \notin Eligible(sweep[i].segment_start)
        /\ (spc = "sweep" /\ segment_start < total_ms) =>
             \A j \in 1..Len(silence_ranges) :
                 j < silence_idx => j \notin Eligible(segment_start)

\* every iteration so far moved on: the cut lies after the start of the segment, the
\* forced minimum segment was not applied, the segment is 1 ms long or more and starts
\* after the one before
SweepAdvanced ==
    \A i \in 1..Len(sweep) :
        /\ sweep[i].cut > sweep[i].segment_start
        /\ ~sweep[i].forced
        /\ sweep[i].before_keep = sweep[i].cut
        /\ sweep[i].segment_end > sweep[i].segment_start
        /\ sweep[i].duration_ms >= 1
        /\ i > 1 => sweep[i].segment_start > sweep[i - 1].segment_start

\* C28 (sweep progress and termination): with max_duration_ms > 0,
\* total_ms > max_duration_ms and keep_silence_ms >= 0, the loop ends, with
\* segment_start = total_ms, and every iteration it took had segment_end > segment_start
\* straight after the cut (the forced minimum segment is never applied), a segment of
\* 1 ms or more, and a segment_start greater than the one before.
C28_SweepTerminates ==
    (MaxDurationMs(max_duration) > 0 /\ total_ms > MaxDurationMs(max_duration)
        /\ keep_silence_ms >= 0) =>
        <>(spc = "returned" /\ segment_start = total_ms /\ SweepAdvanced)

\* a sweep of three iterations or more, with a keep-silence extension, that has ended
\* at the end of the audio
C28_Witness ==
    /\ spc = "returned"
    /\ keep_silence_ms > 0
    /\ Len(sweep) >= 3
    /\ segment_start = total_ms
    /\ sweep[Len(sweep)].segment_end = total_ms
    /\ sweep[Len(sweep)].best_idx = None

\* the calls of that name are for the items 1, 2, ... in that order, one call an item,
\* no more calls than items, and no call follows one that raised
InOrderOnce(name, count) ==
    LET ks == CallsNamed(name)
    IN  /\ Cardinality(ks) <= count
        /\ \A k \in ks : calls[k][2] = Cardinality({j \in ks : j <= k})
        /\ \A k \in ks : calls[k][3] = "raised" => \A j \in ks : j <= k

\* the descriptions the vision client returned, trimmed, the blank ones and those whose
\* saved file could not be read left out, in frame order
TrimmedDescriptions(lost) ==
    SelectSeq([i \in 1..Len(descriptions) |->
                 IF i \in lost THEN <<>> ELSE Trim(descriptions[i])],
              LAMBDA t : Len(t) > 0)

\* C27 (call discipline): transcribe is called at most once a chunk, in chunk order,
\* one call after the other and never again after a failure; describe_image is called
\* at most once a frame, in frame order; the corrector is called at most once, with the
\* joined transcript and the non-empty trimmed descriptions in frame order, and what
\* it returns is the corrected transcript, character for character.
C27_CallDiscipline ==
    /\ InOrderOnce("transcribe", chunk_count)
    /\ InOrderOnce("describe_image", frame_count)
    /\ Cardinality(CallsNamed("correct")) <= 1
    /\ \A k \in CallsNamed("correct") :
         /\ calls[k][2].input.transcript = transcript
         /\ \E lost \in SUBSET (1..Len(descriptions)) :
              calls[k][2].input.image_context = TrimmedDescriptions(lost)
         /\ calls[k][3] = "ok" => corrected_transcript = calls[k][2].returned[1]

====
